---- MODULE Spec2Model ----
(***************************************************************************)
(* Telephone Pictionary (src/src/main.rs): the Home component's two        *)
(* signals, the event handlers of its child components, the asynchronous   *)
(* file reads they start, the asset handler that serves drawings, and the  *)
(* .tpi file format (serde_json) used by Save and Load.                    *)
(*                                                                         *)
(* Bytes and characters are integers 0..255; a String is the sequence of   *)
(* its UTF-8 bytes.  Rust indexes from 0, TLA+ sequences from 1: the entry *)
(* state()[i] of the code is state[i + 1] here.                            *)
(***************************************************************************)
EXTENDS Integers, Sequences, FiniteSets, TLC

(***************************************************************************)
(* Bounds of the model.                                                    *)
(***************************************************************************)
\* No submission is started on a sequence that already has MaxLen entries.
MaxLen == 2
\* At most MaxTasks file reads are suspended at a time.
MaxTasks == 2

(***************************************************************************)
(* Characters.                                                             *)
(***************************************************************************)
\* The ASCII codes of the characters the model writes down.
Ascii ==
    [c \in {"[", "]", "{", "}", ":", ",", ".", "-", " ", "/",
            "0", "1", "2", "3", "4", "5", "6", "7", "8", "9", "A", "D",
            "E", "F", "P", "a", "b", "d", "e", "f", "g", "h", "i", "n", "r",
            "s", "t", "u", "w", "quote", "backslash", "newline", "tab",
            "return", "backspace", "formfeed"} |->
      CASE c = "[" -> 91 [] c = "]" -> 93 [] c = "{" -> 123 [] c = "}" -> 125
        [] c = ":" -> 58 [] c = "," -> 44 [] c = "." -> 46 [] c = "-" -> 45
        [] c = " " -> 32 [] c = "/" -> 47
        [] c = "0" -> 48 [] c = "1" -> 49 [] c = "2" -> 50 [] c = "3" -> 51
        [] c = "4" -> 52 [] c = "5" -> 53 [] c = "6" -> 54 [] c = "7" -> 55
        [] c = "8" -> 56 [] c = "9" -> 57
        [] c = "A" -> 65 [] c = "D" -> 68 [] c = "E" -> 69 [] c = "F" -> 70
        [] c = "P" -> 80
        [] c = "a" -> 97 [] c = "b" -> 98 [] c = "d" -> 100 [] c = "e" -> 101
        [] c = "f" -> 102 [] c = "g" -> 103 [] c = "h" -> 104
        [] c = "i" -> 105 [] c = "n" -> 110 [] c = "r" -> 114
        [] c = "s" -> 115 [] c = "t" -> 116 [] c = "u" -> 117
        [] c = "w" -> 119
        [] c = "quote" -> 34 [] c = "backslash" -> 92 [] c = "newline" -> 10
        [] c = "tab" -> 9 [] c = "return" -> 13 [] c = "backspace" -> 8
        [] c = "formfeed" -> 12]

Ord(c) == Ascii[c]

\* The bytes of a literal given as a tuple of one-character strings.
Str(t) == [i \in 1..Len(t) |-> Ord(t[i])]

Quote == Ord("quote")
Backslash == Ord("backslash")
Newline == Ord("newline")

IsDigit(c) == c >= Ord("0") /\ c <= Ord("9")

IsWhitespace(c) == c \in {Ord(" "), Newline, Ord("return"), Ord("tab")}

(***************************************************************************)
(* Entry (main.rs:10-14): Phrase(String) | Drawing(Vec<u8>).               *)
(***************************************************************************)
\* The variant names of Entry.
PhraseTag == Str(<<"P", "h", "r", "a", "s", "e">>)

DrawingTag == Str(<<"D", "r", "a", "w", "i", "n", "g">>)

Phrase(s) == [kind |-> "Phrase", data |-> s]

Drawing(v) == [kind |-> "Drawing", data |-> v]

(***************************************************************************)
(* serde_json::to_vec(&state()) (main.rs:258): the derived Serialize of    *)
(* Vec<Entry>, externally tagged, compact.                                 *)
(***************************************************************************)
HexDigit(n) == IF n < 10 THEN Ord("0") + n ELSE Ord("a") + (n - 10)

\* A writer that escapes nothing.
EscapeChar_raw(c) == <<c>>

\* One character of a JSON string as serde_json writes it.
EscapeChar(c) ==
    CASE c = Quote -> <<Backslash, Quote>>
      [] c = Backslash -> <<Backslash, Backslash>>
      [] c = Ord("backspace") -> <<Backslash, Ord("b")>>
      [] c = Ord("formfeed") -> <<Backslash, Ord("f")>>
      [] c = Newline -> <<Backslash, Ord("n")>>
      [] c = Ord("return") -> <<Backslash, Ord("r")>>
      [] c = Ord("tab") -> <<Backslash, Ord("t")>>
      [] c < 32 -> <<Backslash, Ord("u"), Ord("0"), Ord("0"),
                     HexDigit(c \div 16), HexDigit(c % 16)>>
      [] OTHER -> <<c>>

RECURSIVE EscapeFrom(_, _)
EscapeFrom(s, i) ==
    IF i > Len(s) THEN <<>> ELSE EscapeChar(s[i]) \o EscapeFrom(s, i + 1)

EncodeString(s) == <<Quote>> \o EscapeFrom(s, 1) \o <<Quote>>

RECURSIVE DecimalDigits(_)
DecimalDigits(n) ==
    IF n < 10 THEN <<Ord("0") + n>>
    ELSE DecimalDigits(n \div 10) \o <<Ord("0") + (n % 10)>>

RECURSIVE EncodeBytesFrom(_, _)
EncodeBytesFrom(v, i) ==
    IF i > Len(v) THEN <<>>
    ELSE (IF i > 1 THEN <<Ord(",")>> ELSE <<>>)
         \o DecimalDigits(v[i]) \o EncodeBytesFrom(v, i + 1)

EncodeBytes(v) == <<Ord("[")>> \o EncodeBytesFrom(v, 1) \o <<Ord("]")>>

EncodeEntry(e) ==
    IF e.kind = "Phrase"
    THEN Str(<<"{">>) \o EncodeString(PhraseTag)
         \o Str(<<":">>) \o EncodeString(e.data) \o Str(<<"}">>)
    ELSE Str(<<"{">>) \o EncodeString(DrawingTag)
         \o Str(<<":">>) \o EncodeBytes(e.data) \o Str(<<"}">>)

RECURSIVE EncodeEntriesFrom(_, _)
EncodeEntriesFrom(v, i) ==
    IF i > Len(v) THEN <<>>
    ELSE (IF i > 1 THEN <<Ord(",")>> ELSE <<>>)
         \o EncodeEntry(v[i]) \o EncodeEntriesFrom(v, i + 1)

to_vec(v) == <<Ord("[")>> \o EncodeEntriesFrom(v, 1) \o <<Ord("]")>>

(***************************************************************************)
(* serde_json::from_str::<Vec<Entry>> (main.rs:290-293).  A parse result   *)
(* is [ok, val, pos]: pos is the index of the first byte not consumed.     *)
(***************************************************************************)
Fail == [ok |-> FALSE, val |-> <<>>, pos |-> 0]

Ok(v, p) == [ok |-> TRUE, val |-> v, pos |-> p]

At(b, i) == IF i >= 1 /\ i <= Len(b) THEN b[i] ELSE -1

RECURSIVE SkipWs(_, _)
SkipWs(b, i) == IF IsWhitespace(At(b, i)) THEN SkipWs(b, i + 1) ELSE i

HexValue(c) ==
    IF IsDigit(c) THEN c - Ord("0")
    ELSE IF c >= Ord("a") /\ c <= Ord("f") THEN c - Ord("a") + 10
    ELSE IF c >= Ord("A") /\ c <= Ord("F") THEN c - Ord("A") + 10
    ELSE -1

\* The character a \uXXXX escape at b[i..i+3] denotes, for ASCII ones.
ParseHex4(b, i) ==
    LET h == [k \in 0..3 |-> HexValue(At(b, i + k))]
    IN  IF \E k \in 0..3 : h[k] < 0 THEN -1
        ELSE IF h[0] # 0 \/ h[1] # 0 \/ h[2] > 7 THEN -1
        ELSE h[2] * 16 + h[3]

\* The body of a JSON string, after its opening quote.
RECURSIVE ParseStrBody(_, _, _)
ParseStrBody(b, i, acc) ==
    LET c == At(b, i) IN
    IF c = -1 THEN Fail
    ELSE IF c = Quote THEN Ok(acc, i + 1)
    ELSE IF c = Backslash THEN
        LET d == At(b, i + 1) IN
        CASE d = Quote -> ParseStrBody(b, i + 2, Append(acc, Quote))
          [] d = Backslash -> ParseStrBody(b, i + 2, Append(acc, Backslash))
          [] d = Ord("/") -> ParseStrBody(b, i + 2, Append(acc, Ord("/")))
          [] d = Ord("b") -> ParseStrBody(b, i + 2, Append(acc, Ord("backspace")))
          [] d = Ord("f") -> ParseStrBody(b, i + 2, Append(acc, Ord("formfeed")))
          [] d = Ord("n") -> ParseStrBody(b, i + 2, Append(acc, Newline))
          [] d = Ord("r") -> ParseStrBody(b, i + 2, Append(acc, Ord("return")))
          [] d = Ord("t") -> ParseStrBody(b, i + 2, Append(acc, Ord("tab")))
          [] d = Ord("u") ->
                IF ParseHex4(b, i + 2) < 0 THEN Fail
                ELSE ParseStrBody(b, i + 6, Append(acc, ParseHex4(b, i + 2)))
          [] OTHER -> Fail
    ELSE IF c < 32 THEN Fail
    ELSE ParseStrBody(b, i + 1, Append(acc, c))

ParseString(b, i) ==
    IF At(b, i) = Quote THEN ParseStrBody(b, i + 1, <<>>) ELSE Fail

\* The digits of an integer, its value saturating above u8::MAX.
RECURSIVE ParseDigits(_, _, _)
ParseDigits(b, i, acc) ==
    IF IsDigit(At(b, i))
    THEN LET n == acc * 10 + (At(b, i) - Ord("0"))
         IN  ParseDigits(b, i + 1, IF n > 255 THEN 256 ELSE n)
    ELSE Ok(acc, i)

\* A JSON number deserialized as u8.
ParseU8(b, i) ==
    LET c == At(b, i)
        r == IF c = Ord("0") THEN Ok(0, i + 1) ELSE ParseDigits(b, i, 0)
        n == At(b, r.pos)
    IN  IF ~IsDigit(c) THEN Fail
        ELSE IF IsDigit(n) \/ n \in {Ord("."), Ord("e"), Ord("E")} THEN Fail
        ELSE IF r.val > 255 THEN Fail
        ELSE r

\* The elements of an array of u8 after its "[": first says whether no
\* element has been read yet.  A comma must be followed by an element.
RECURSIVE ParseBytesRest(_, _, _, _)
BytesSep(b, k, acc) ==
    IF At(b, k) = Ord(",") THEN ParseBytesRest(b, k + 1, acc, FALSE)
    ELSE IF At(b, k) = Ord("]") THEN Ok(acc, k + 1)
    ELSE Fail

BytesElem(b, r, acc) ==
    IF ~r.ok THEN Fail ELSE BytesSep(b, SkipWs(b, r.pos), Append(acc, r.val))

BytesFirst(b, j, acc, first) ==
    IF first /\ At(b, j) = Ord("]") THEN Ok(acc, j + 1)
    ELSE BytesElem(b, ParseU8(b, j), acc)

ParseBytesRest(b, i, acc, first) == BytesFirst(b, SkipWs(b, i), acc, first)

ParseBytes(b, i) ==
    IF At(b, i) = Ord("[") THEN ParseBytesRest(b, i + 1, <<>>, TRUE) ELSE Fail

\* One Entry: {"Phrase": <string>} or {"Drawing": <array of u8>}.
EntryEnd(b, kind, data, e) ==
    IF At(b, e) = Ord("}") THEN Ok([kind |-> kind, data |-> data], e + 1)
    ELSE Fail

EntryClose(b, kind, val) ==
    IF ~val.ok THEN Fail ELSE EntryEnd(b, kind, val.val, SkipWs(b, val.pos))

EntryValue(b, tag, v) ==
    IF tag = PhraseTag THEN EntryClose(b, "Phrase", ParseString(b, v))
    ELSE IF tag = DrawingTag THEN EntryClose(b, "Drawing", ParseBytes(b, v))
    ELSE Fail

EntryColon(b, tag, c) ==
    IF At(b, c) = Ord(":") THEN EntryValue(b, tag, SkipWs(b, c + 1)) ELSE Fail

EntryKey(b, key) ==
    IF ~key.ok THEN Fail ELSE EntryColon(b, key.val, SkipWs(b, key.pos))

ParseEntry(b, i) ==
    IF At(b, i) = Ord("{") THEN EntryKey(b, ParseString(b, SkipWs(b, i + 1)))
    ELSE Fail

\* The elements of the array of entries after its "[".
RECURSIVE ParseEntriesRest(_, _, _, _)
EntriesSep(b, k, acc) ==
    IF At(b, k) = Ord(",") THEN ParseEntriesRest(b, k + 1, acc, FALSE)
    ELSE IF At(b, k) = Ord("]") THEN Ok(acc, k + 1)
    ELSE Fail

EntriesElem(b, r, acc) ==
    IF ~r.ok THEN Fail
    ELSE EntriesSep(b, SkipWs(b, r.pos), Append(acc, r.val))

EntriesFirst(b, j, acc, first) ==
    IF first /\ At(b, j) = Ord("]") THEN Ok(acc, j + 1)
    ELSE EntriesElem(b, ParseEntry(b, j), acc)

ParseEntriesRest(b, i, acc, first) ==
    EntriesFirst(b, SkipWs(b, i), acc, first)

\* Trailing characters after the value are an error.
AtEnd(b, r) ==
    IF ~r.ok THEN Fail
    ELSE IF SkipWs(b, r.pos) = Len(b) + 1 THEN r
    ELSE Fail

ParseVec(b, i) ==
    IF At(b, i) = Ord("[")
    THEN AtEnd(b, ParseEntriesRest(b, i + 1, <<>>, TRUE))
    ELSE Fail

\* Err(_) is ok = FALSE.
from_str(b) == ParseVec(b, SkipWs(b, 1))

(***************************************************************************)
(* The files the user can reach through the dialogs.  A file name is a     *)
(* tuple of one-character strings, a file's contents a sequence of bytes.  *)
(***************************************************************************)
PngName == <<"p", ".", "p", "n", "g">>

JpgName == <<"q", ".", "j", "p", "g">>

\* A .tpi file cut short: the closing "]" is missing.
BadName == <<"b", ".", "t", "p", "i">>

\* A .tpi file written by hand, with white space: it decodes to a Drawing
\* followed by a Phrase.
OddName == <<"o", ".", "t", "p", "i">>

PngBytes == <<137, 80>>

JpgBytes == <<255, 0>>

\* The files on disk at launch.
Disk0 ==
    [n \in {PngName, JpgName, BadName, OddName} |->
        CASE n = PngName -> PngBytes
          [] n = JpgName -> JpgBytes
          [] n = BadName ->
                LET whole == to_vec(<<Phrase(Str(<<"a">>))>>)
                IN  SubSeq(whole, 1, Len(whole) - 1)
          [] n = OddName ->
                Str(<<" ", "[", " ", "{">>)
                \o EncodeString(DrawingTag)
                \o Str(<<":", " ", "[", "2", "5", "5", ",", " ", "0", "]",
                         "}", ",", "newline", "{">>)
                \o EncodeString(PhraseTag)
                \o Str(<<" ", ":", "quote", "a", "backslash", "quote",
                         "backslash", "backslash", "backslash", "n", "quote",
                         "}", "]", " ">>)]

\* The names the user types into Save's text input ("" clears it).
SaveNames == {<<>>, <<"g">>, <<"g", ".", "t", "p", "i">>}

\* The text the user types into the caption textarea: a letter, a quote, a
\* backslash and a line break.
Texts == {<<Ord("a"), Quote, Backslash, Newline>>}

\* str::ends_with
ends_with(n, suffix) ==
    /\ Len(n) >= Len(suffix)
    /\ SubSeq(n, Len(n) - Len(suffix) + 1, Len(n)) = suffix

Tpi == <<".", "t", "p", "i">>

ImageExts == {<<".", "p", "n", "g">>, <<".", "j", "p", "g">>}

\* The file system, d being the files written since launch.
Files(d) == DOMAIN Disk0 \cup DOMAIN d

Content(d, n) == IF n \in DOMAIN d THEN d[n] ELSE Disk0[n]

\* The files a dialog filtered by accept offers (main.rs:181, main.rs:285).
Accepted(d, exts) ==
    {n \in Files(d) : \E x \in exts : ends_with(n, x)}

\* evt.files(): None, or a file engine with no file or with the chosen file.
NoEngine == <<"None">>

FileLists(d, exts) ==
    {NoEngine, <<>>} \cup {<<"Some", n>> : n \in Accepted(d, exts)}

\* read_file_to_string succeeds on UTF-8 only; of the contents of this
\* model those are the ones made of ASCII bytes.
IsUtf8(b) == \A i \in 1..Len(b) : b[i] < 128

(***************************************************************************)
(* The components' render functions: what is mounted for a given state.    *)
(***************************************************************************)
Last(s) == s[Len(s)]

\* EntryDisplay matching on state().first() instead of state().last().
EntryDisplay_first(s) ==
    IF Len(s) = 0
    THEN [prompt |-> "Write something!", input |-> "PhraseInput", img |-> {}]
    ELSE IF s[1].kind = "Phrase"
    THEN [prompt |-> "Draw: ", input |-> "ImgSelector", img |-> {}]
    ELSE [prompt |-> "What is this?", input |-> "PhraseInput",
          img |-> {Len(s) - 1}]

\* EntryDisplay with the two input widgets exchanged after an entry.
EntryDisplay_swapped(s) ==
    IF Len(s) = 0
    THEN [prompt |-> "Write something!", input |-> "PhraseInput", img |-> {}]
    ELSE IF Last(s).kind = "Phrase"
    THEN [prompt |-> "Draw: ", input |-> "PhraseInput", img |-> {}]
    ELSE [prompt |-> "What is this?", input |-> "ImgSelector",
          img |-> {Len(s) - 1}]

\* EntryDisplay: the prompt, the input widget, and the index of the image.
EntryDisplay(s) ==
    IF Len(s) = 0
    THEN [prompt |-> "Write something!", input |-> "PhraseInput", img |-> {}]
    ELSE IF Last(s).kind = "Phrase"
    THEN [prompt |-> "Draw: ", input |-> "ImgSelector", img |-> {}]
    ELSE [prompt |-> "What is this?", input |-> "PhraseInput",
          img |-> {Len(s) - 1}]

\* GameReview numbering the drawings among themselves.
GameReview_count(s) ==
    [k \in 1..Len(s) |->
        IF s[k].kind = "Phrase"
        THEN [tag |-> "PhraseDisplay", phrase |-> s[k].data, index |-> -1]
        ELSE [tag |-> "DrawingDisplay", phrase |-> <<>>,
              index |-> Cardinality({j \in 1..(k - 1) :
                                        s[j].kind = "Drawing"})]]

\* GameReview: one element per entry, enumerate() counting from 0.
GameReview(s) ==
    [k \in 1..Len(s) |->
        IF s[k].kind = "Phrase"
        THEN [tag |-> "PhraseDisplay", phrase |-> s[k].data, index |-> -1]
        ELSE [tag |-> "DrawingDisplay", phrase |-> <<>>, index |-> k - 1]]

\* GameControls rendering its three buttons whatever the sequence.
GameControls_all(s) == {"NewBtn", "SaveBtn", "LoadBtn"}

GameControls(s) ==
    IF Len(s) > 0 THEN {"NewBtn", "SaveBtn", "LoadBtn"} ELSE {"LoadBtn"}

\* Home rendering EntryDisplay in review mode too.
Home_always(s, va) ==
    {"EntryDisplay", EntryDisplay(s).input}
    \cup {"ViewAllBtn"} \cup GameControls(s)
    \cup (IF va THEN {"GameReview"} ELSE {})

\* Home: the components mounted.
Home(s, va) ==
    (IF ~va THEN {"EntryDisplay", EntryDisplay(s).input} ELSE {})
    \cup {"ViewAllBtn"} \cup GameControls(s)
    \cup (IF va THEN {"GameReview"} ELSE {})

\* The indices i of the img elements with src "entry/{i}" on screen.
ImgRefs(s, va) ==
    IF va
    THEN {GameReview(s)[k].index : 
            k \in {j \in 1..Len(s) : GameReview(s)[j].tag = "DrawingDisplay"}}
    ELSE EntryDisplay(s).img

\* The process runs and component c is on screen: its handlers can fire.
Mounted(c, s, va, dead) == ~dead /\ c \in Home(s, va)

VARIABLES
    state,          \* Home: use_signal(|| Vec::<Entry>::new())
    view_all,       \* Home: use_signal(|| false)
    tasks,          \* the suspended futures of ImgSelector and LoadBtn
    disk,           \* the files written since launch: name -> contents
    requests,       \* the "entry/<i>" requests the web view has sent
    crashed,        \* a handler panicked: the process is gone
    event,          \* the handler that ran to its end last, and its answer
    saved           \* history: file name -> the sequence Save wrote to it

vars == <<state, view_all, tasks, disk, requests, crashed, event, saved>>

\* The small_state signals of PhraseInput and SaveBtn hold what the user
\* typed last; a handler that reads one takes its value as an input.

Ev(op) == [op |-> op, idx |-> -1, body |-> <<>>, file |-> <<>>]

Init ==
    /\ state = <<>>
    /\ view_all = FALSE
    /\ tasks = {}
    /\ disk = <<>>
    /\ requests = {}
    /\ crashed = FALSE
    /\ event = Ev("launch")
    /\ saved = <<>>

\* A panic on the UI thread ends the process: its futures and the requests
\* it has not answered go with it; the files stay.
Panic(op) ==
    /\ crashed' = TRUE
    /\ event' = Ev(op)
    /\ tasks' = {}
    /\ requests' = {}

\* A future suspended at its await: the file it reads and, for ImgSelector,
\* the temp it took from state before the await.  Two futures equal in both
\* resume alike and are one element of tasks.
Task(kind, temp, file) == [kind |-> kind, temp |-> temp, file |-> file]

\* The future of a handler belongs to the component that rendered the
\* handler and is dropped with it.  A write to a signal renders Home again:
\* the futures of ImgSelector in ts go when s and va leave it unmounted;
\* LoadBtn is rendered in every state.
Rendered(ts, s, va) ==
    {t \in ts : t.kind = "load" \/ "ImgSelector" \in Home(s, va)}

(***************************************************************************)
(* PhraseInput: the OK button, small_state() being text.                   *)
(***************************************************************************)
\* temp.push(Entry::Phrase(small_state()))
PhraseInput_push(temp, text) == Append(temp, Phrase(text))

PhraseInput_onclick(text) ==
    /\ Mounted("PhraseInput", state, view_all, crashed)
    /\ Len(state) < MaxLen
    /\ state' = PhraseInput_push(state, text)
    /\ tasks' = Rendered(tasks, state', view_all)
    /\ event' = Ev("OK")
    /\ UNCHANGED <<view_all, disk, requests, crashed, saved>>

(***************************************************************************)
(* ImgSelector: the handler runs to its await, and resumes when the read   *)
(* is done.                                                                *)
(***************************************************************************)
ImgSelector_onchange(files) ==
    /\ Mounted("ImgSelector", state, view_all, crashed)
    /\ IF files # NoEngine /\ Len(files) > 0
       THEN /\ Len(state) < MaxLen
            /\ Cardinality(tasks) < MaxTasks
            /\ tasks' = tasks \cup {Task("img", state, files[2])}
            /\ event' = event
       ELSE /\ tasks' = tasks
            /\ event' = Ev("ImgNoFile")
    /\ UNCHANGED <<state, view_all, disk, requests, crashed, saved>>

\* temp.push(Entry::Drawing(..)); the value written to state.
ImgSelector_push(temp, bytes) == Append(temp, Drawing(bytes))

\* read_file(..).await.unwrap() panics when the file cannot be read.
ImgSelector_resume(t, readable) ==
    /\ ~crashed
    /\ t \in tasks
    /\ t.kind = "img"
    /\ IF readable /\ t.file \in Files(disk)
       THEN /\ state' = ImgSelector_push(t.temp, Content(disk, t.file))
            /\ event' = [Ev("ImgDone") EXCEPT !.file = t.file]
            /\ tasks' = Rendered(tasks \ {t}, state', view_all)
            /\ UNCHANGED <<requests, crashed>>
       ELSE /\ state' = state
            /\ Panic("ImgReadPanic")
    /\ UNCHANGED <<view_all, disk, saved>>

(***************************************************************************)
(* NewBtn, ViewAllBtn                                                      *)
(***************************************************************************)
\* temp.pop() in the place of temp.clear().
NewBtn_clear_pop(temp) == SubSeq(temp, 1, Len(temp) - 1)

\* temp.clear()
NewBtn_clear(temp) == SubSeq(temp, 1, 0)

NewBtn_ondoubleclick ==
    /\ Mounted("NewBtn", state, view_all, crashed)
    /\ state' = NewBtn_clear(state)
    /\ tasks' = Rendered(tasks, state', view_all)
    /\ event' = Ev("New")
    /\ UNCHANGED <<view_all, disk, requests, crashed, saved>>

\* A button that only enters review mode.
ViewAllBtn_toggle_set(va) == TRUE

\* !view_all()
ViewAllBtn_toggle(va) == ~va

ViewAllBtn_onclick ==
    /\ Mounted("ViewAllBtn", state, view_all, crashed)
    /\ view_all' = ViewAllBtn_toggle(view_all)
    /\ tasks' = Rendered(tasks, state, view_all')
    /\ event' = Ev("ViewAll")
    /\ UNCHANGED <<state, disk, requests, crashed, saved>>

(***************************************************************************)
(* SaveBtn: the Save button, small_state() being name.                     *)
(***************************************************************************)
\* push_str(".tpi") without the test of ends_with.
SaveBtn_filename_push(n) == n \o Tpi

\* The name of the file written.
SaveBtn_filename(n) == IF ~ends_with(n, Tpi) THEN n \o Tpi ELSE n

\* File::create(n) and write_all(b): n is created or truncated.
WriteFile(d, n, b) == [m \in DOMAIN d \cup {n} |-> IF m = n THEN b ELSE d[m]]

\* The button is disabled while the name is empty; File::create(..).unwrap()
\* panics when the file cannot be created.
SaveBtn_onclick(name, creatable) ==
    /\ Mounted("SaveBtn", state, view_all, crashed)
    /\ ~(Len(name) = 0)
    /\ IF creatable
       THEN /\ disk' = WriteFile(disk, SaveBtn_filename(name), to_vec(state))
            /\ saved' = WriteFile(saved, SaveBtn_filename(name), state)
            /\ event' = [Ev("Save") EXCEPT !.file = SaveBtn_filename(name)]
            /\ UNCHANGED <<tasks, requests, crashed>>
       ELSE /\ UNCHANGED <<disk, saved>>
            /\ Panic("SavePanic")
    /\ UNCHANGED <<state, view_all>>

(***************************************************************************)
(* LoadBtn                                                                 *)
(***************************************************************************)
\* A handler that takes files()[0] without asking for the length first.
LoadBtn_onchange_first(files) ==
    /\ Mounted("LoadBtn", state, view_all, crashed)
    /\ IF files # NoEngine /\ Len(files) > 0
       THEN /\ Cardinality(tasks) < MaxTasks
            /\ tasks' = tasks \cup {Task("load", <<>>, files[2])}
            /\ event' = event
            /\ UNCHANGED <<requests, crashed>>
       ELSE Panic("LoadNoFile")
    /\ UNCHANGED <<state, view_all, disk, saved>>

LoadBtn_onchange(files) ==
    /\ Mounted("LoadBtn", state, view_all, crashed)
    /\ IF files # NoEngine /\ Len(files) > 0
       THEN /\ Cardinality(tasks) < MaxTasks
            /\ tasks' = tasks \cup {Task("load", <<>>, files[2])}
            /\ event' = event
       ELSE /\ tasks' = tasks
            /\ event' = Ev("LoadNoFile")
    /\ UNCHANGED <<state, view_all, disk, requests, crashed, saved>>

\* read_file_to_string(..).await: None when the file cannot be read or is
\* not UTF-8.
read_file_to_string(d, n, readable) ==
    IF readable /\ n \in Files(d) /\ IsUtf8(Content(d, n))
    THEN Ok(Content(d, n), 0) ELSE Fail

LoadBtn_decoded(temp) ==
    IF temp.ok THEN [out |-> "LoadDone", val |-> temp.val]
    ELSE [out |-> "LoadDecodePanic", val |-> <<>>]

\* The two unwraps of the handler: the text read, then the value decoded.
LoadBtn_decode(text) ==
    IF ~text.ok THEN [out |-> "LoadReadPanic", val |-> <<>>]
    ELSE LoadBtn_decoded(from_str(text.val))

\* *state.write() = temp, when no unwrap panicked.
LoadBtn_write(t, r) ==
    /\ IF r.out = "LoadDone"
       THEN /\ state' = r.val
            /\ event' = [Ev("LoadDone") EXCEPT !.file = t.file]
            /\ tasks' = Rendered(tasks \ {t}, state', view_all)
            /\ UNCHANGED <<requests, crashed>>
       ELSE /\ state' = state
            /\ Panic(r.out)
    /\ UNCHANGED <<view_all, disk, saved>>

LoadBtn_resume(t, readable) ==
    /\ ~crashed
    /\ t \in tasks
    /\ t.kind = "load"
    /\ LoadBtn_write(t, LoadBtn_decode(
            read_file_to_string(disk, t.file, readable)))

(***************************************************************************)
(* The web view fetches the src of an img on screen; the asset handler     *)
(* registered by Home answers the request later, on the UI thread.         *)
(***************************************************************************)
WebView_fetch(i) ==
    /\ ~crashed
    /\ i \in ImgRefs(state, view_all)
    /\ i \notin requests
    /\ requests' = requests \cup {i}
    /\ UNCHANGED <<state, view_all, tasks, disk, crashed, event, saved>>

\* A lookup that serves the last entry whatever the index.
asset_lookup_last(s, i) ==
    IF i >= Len(s) THEN [out |-> "panic", body |-> <<>>]
    ELSE IF Last(s).kind = "Drawing"
    THEN [out |-> "respond", body |-> Last(s).data]
    ELSE [out |-> "none", body |-> <<>>]

\* state()[i] with its bounds check, then the match on the entry:
\* "panic", "none" (return without responding) or "respond" with a body.
asset_lookup(s, i) ==
    IF i >= Len(s) THEN [out |-> "panic", body |-> <<>>]
    ELSE IF s[i + 1].kind = "Drawing"
    THEN [out |-> "respond", body |-> s[i + 1].data]
    ELSE [out |-> "none", body |-> <<>>]

asset_answer(i, r) ==
    IF r.out = "panic"
    THEN Panic("AssetPanic")
    ELSE /\ event' = [Ev(IF r.out = "respond" THEN "AssetRespond"
                         ELSE "AssetIgnore")
                      EXCEPT !.idx = i, !.body = r.body]
         /\ requests' = requests \ {i}
         /\ UNCHANGED <<tasks, crashed>>

asset_handler(i) ==
    /\ ~crashed
    /\ i \in requests
    /\ asset_answer(i, asset_lookup(state, i))
    /\ UNCHANGED <<state, view_all, disk, saved>>

Next ==
    \/ \E t \in Texts : PhraseInput_onclick(t)
    \/ \E f \in FileLists(disk, ImageExts) : ImgSelector_onchange(f)
    \/ \E t \in tasks, r \in BOOLEAN : ImgSelector_resume(t, r)
    \/ NewBtn_ondoubleclick
    \/ ViewAllBtn_onclick
    \/ \E n \in SaveNames, c \in BOOLEAN : SaveBtn_onclick(n, c)
    \/ \E f \in FileLists(disk, {Tpi}) : LoadBtn_onchange(f)
    \/ \E t \in tasks, r \in BOOLEAN : LoadBtn_resume(t, r)
    \/ \E i \in ImgRefs(state, view_all) : WebView_fetch(i)
    \/ \E i \in requests : asset_handler(i)

Spec == Init /\ [][Next]_vars

\* The runs in which the user never chooses a file in Load.
NextNoLoad ==
    \/ \E t \in Texts : PhraseInput_onclick(t)
    \/ \E f \in FileLists(disk, ImageExts) : ImgSelector_onchange(f)
    \/ \E t \in tasks, r \in BOOLEAN : ImgSelector_resume(t, r)
    \/ NewBtn_ondoubleclick
    \/ ViewAllBtn_onclick
    \/ \E n \in SaveNames, c \in BOOLEAN : SaveBtn_onclick(n, c)
    \/ \E i \in ImgRefs(state, view_all) : WebView_fetch(i)
    \/ \E i \in requests : asset_handler(i)

SpecNoLoad == Init /\ [][NextNoLoad]_vars

(***************************************************************************)
(* The steps the claims speak of.                                          *)
(***************************************************************************)
\* An image read or a load read resumes (and writes, or panics).
Resumes ==
    \E t \in tasks, r \in BOOLEAN :
        ImgSelector_resume(t, r) \/ LoadBtn_resume(t, r)

\* new is old with the one entry e pushed at its end.
Appended(old, new, e) ==
    /\ Len(new) = Len(old) + 1
    /\ new[Len(new)] = e
    /\ \A k \in 1..Len(old) : new[k] = old[k]

ImgTasks(ts) == {t \in ts : t.kind = "img"}

(***************************************************************************)
(* C1.  The input the active view asks for is decided by the last entry    *)
(* alone: an empty sequence shows the "Write something!" phrase input, a   *)
(* last Phrase the image selector, a last Drawing the phrase input.        *)
(***************************************************************************)
C1_InputDecidedByLast ==
    LET d == EntryDisplay(state) IN
    /\ Len(state) = 0 =>
            d.input = "PhraseInput" /\ d.prompt = "Write something!"
    /\ Len(state) > 0 /\ Last(state).kind = "Phrase" =>
            d.input = "ImgSelector"
    /\ Len(state) > 0 /\ Last(state).kind = "Drawing" =>
            d.input = "PhraseInput" /\ d.prompt = "What is this?"
    /\ Len(state) > 0 => d.input = EntryDisplay(<<Last(state)>>).input
    /\ ~view_all /\ ~crashed =>
            /\ Mounted("ImgSelector", state, view_all, crashed)
                    <=> (Len(state) > 0 /\ Last(state).kind = "Phrase")
            /\ Mounted("PhraseInput", state, view_all, crashed)
                    <=> (Len(state) = 0 \/ Last(state).kind = "Drawing")

\* A phrase, then a drawing attached to it: the view asks for a phrase.
C1_Witness ==
    /\ event.op = "ImgDone" /\ ~view_all
    /\ Len(state) = 2
    /\ state[1].kind = "Phrase" /\ state[2].kind = "Drawing"
    /\ EntryDisplay(state).input = "PhraseInput"

(***************************************************************************)
(* C2.  While an image read or a load read is suspended no other handler   *)
(* changes the sequence, so the sequence an image read overwrites when it  *)
(* resumes is the one it took when it started: no mutation is lost.        *)
(* ImgSelector takes temp = state() before its await and writes temp back  *)
(* after it; the handlers of the other components run in between, and a    *)
(* load that completes in between leaves ImgSelector rendered when the     *)
(* loaded sequence ends with a Phrase.                                     *)
(***************************************************************************)
C2_NoMutationWhileSuspended ==
    [][/\ (tasks # {} /\ ~Resumes) => state' = state
       /\ \A t \in tasks :
            (ImgSelector_resume(t, TRUE) /\ ~crashed') => state = t.temp]_vars

(***************************************************************************)
(* C3.  Every submission, an OK click with text t or a completed image     *)
(* selection with file bytes b, makes the sequence one longer, with        *)
(* Phrase(t) or Drawing(b) at its end and the earlier entries unchanged.   *)
(* The OK click does; the image selection pushes onto the temp it took     *)
(* before its await (C2), not onto the sequence as it is when it resumes.  *)
(***************************************************************************)
C3_SubmissionAppendsOne ==
    [][/\ \A t \in Texts :
            PhraseInput_onclick(t) => Appended(state, state', Phrase(t))
       /\ \A t \in tasks :
            (ImgSelector_resume(t, TRUE) /\ ~crashed') =>
                Appended(state, state', Drawing(Content(disk, t.file)))]_vars

(***************************************************************************)
(* C4.  Save then Load is the identity: every file Save wrote decodes to   *)
(* the sequence saved, and a load of it that completes leaves exactly that *)
(* sequence in memory, whatever was there before.                          *)
(***************************************************************************)
C4_SaveLoadRoundTrip ==
    /\ \A n \in DOMAIN saved :
            /\ from_str(disk[n]).ok
            /\ from_str(disk[n]).val = saved[n]
    /\ (event.op = "LoadDone" /\ event.file \in DOMAIN saved) =>
            state = saved[event.file]

\* A saved phrase (with a quote, a backslash and a line break) and drawing
\* are back in memory after a load of the saved file.
C4_Witness ==
    /\ event.op = "LoadDone" /\ event.file \in DOMAIN saved
    /\ Len(state) = 2
    /\ state[1] = Phrase(<<Ord("a"), Quote, Backslash, Newline>>)
    /\ state[2] = Drawing(PngBytes)

(***************************************************************************)
(* C5.  A load of a file that does not decode leaves the sequence as it    *)
(* was, reports a DecodeFailure, and the application goes on.              *)
(* The handler unwraps the result of from_str: it panics.                  *)
(***************************************************************************)
C5_CorruptLoadIsRejected ==
    [][\A t \in tasks :
        (/\ LoadBtn_resume(t, TRUE)
         /\ ~from_str(Content(disk, t.file)).ok)
        => /\ state' = state
           /\ event'.op = "DecodeFailure"
           /\ ~crashed']_vars

(***************************************************************************)
(* C6.  A lookup of "entry/<i>" with i out of the bounds of the sequence   *)
(* reports IndexOutOfRange, a not-found answer, and does not crash.        *)
(* The handler indexes state()[i]: it panics.                              *)
(***************************************************************************)
C6_LookupOutOfRangeIsNotFound ==
    [][\A i \in requests :
        (asset_handler(i) /\ i >= Len(state))
        => /\ event'.op = "IndexOutOfRange"
           /\ ~crashed']_vars

(***************************************************************************)
(* C7.  A lookup with i within the bounds answers with exactly the bytes   *)
(* of S[i] when S[i] is a Drawing and with no body when it is a Phrase,    *)
(* and leaves the sequence and the review flag as they were.               *)
(***************************************************************************)
C7_LookupInBounds ==
    [][\A i \in requests :
        (asset_handler(i) /\ i < Len(state))
        => /\ state' = state /\ view_all' = view_all /\ ~crashed'
           /\ event'.idx = i
           /\ IF state[i + 1].kind = "Drawing"
              THEN /\ event'.op = "AssetRespond"
                   /\ event'.body = state[i + 1].data
              ELSE /\ event'.op = "AssetIgnore"
                   /\ event'.body = <<>>]_vars

\* The second entry, a drawing, was served under "entry/1".
C7_Witness ==
    /\ event.op = "AssetRespond" /\ event.idx = 1
    /\ Len(state) = 2 /\ state[2].kind = "Drawing"
    /\ event.body = state[2].data

(***************************************************************************)
(* C8.  The review toggle only flips the flag: the sequence is unchanged,  *)
(* and a second toggle gives back the flag the first one found.            *)
(***************************************************************************)
C8_ToggleOnlyFlipsFlag ==
    [][ViewAllBtn_onclick
        => /\ state' = state
           /\ view_all' = ~view_all
           /\ ViewAllBtn_toggle(view_all') = view_all]_vars

\* Back in active mode, by the toggle, with the entries still there.
C8_Witness ==
    /\ event.op = "ViewAll" /\ ~view_all
    /\ Len(state) = 2

(***************************************************************************)
(* C9, as claimed.  While the review flag is true the sequence does not    *)
(* change.  Home renders GameControls in review mode too: New clears the   *)
(* sequence and a load replaces it there.                                  *)
(***************************************************************************)
C9_ReviewIsReadOnly == [][view_all => state' = state]_vars

(***************************************************************************)
(* C9, amended.  In review mode no submission is made: no OK click, and no *)
(* image selection is started or completes while the flag is true.  A step *)
(* that changes the sequence there is a New or a load that completes.      *)
(***************************************************************************)
C9_ReviewOffersNoSubmission ==
    [][/\ view_all' => ImgTasks(tasks') = {}
       /\ view_all =>
            /\ \A t \in Texts : ~PhraseInput_onclick(t)
            /\ \A t \in tasks : ~ImgSelector_resume(t, TRUE)
            /\ state' # state =>
                \/ NewBtn_ondoubleclick
                \/ \E t \in tasks : LoadBtn_resume(t, TRUE)]_vars

\* New has cleared the sequence in review mode.
C9_Witness ==
    /\ view_all /\ event.op = "New"
    /\ Len(state) = 0 /\ ~crashed

(***************************************************************************)
(* C10.  New leaves an empty sequence whatever the sequence held, and      *)
(* clearing an empty sequence leaves it empty.                             *)
(***************************************************************************)
C10_NewClears ==
    /\ event.op = "New" => Len(state) = 0
    /\ Len(NewBtn_clear(state)) = 0
    /\ NewBtn_clear(NewBtn_clear(state)) = NewBtn_clear(state)

\* New has run on a sequence that was long enough to be saved before.
C10_Witness ==
    /\ event.op = "New" /\ Len(state) = 0
    /\ \E n \in DOMAIN saved : Len(saved[n]) = 2

(***************************************************************************)
(* C11.  Save writes the file named by the typed name f when f ends with   *)
(* ".tpi" and by f followed by ".tpi" otherwise: the name written ends     *)
(* with ".tpi", naming it again gives the same name, and the sequence in   *)
(* memory is as it was.                                                    *)
(***************************************************************************)
C11_SaveNameNormalised ==
    /\ \A n \in SaveNames :
            /\ SaveBtn_filename(n) = (IF ends_with(n, Tpi) THEN n ELSE n \o Tpi)
            /\ ends_with(SaveBtn_filename(n), Tpi)
            /\ SaveBtn_filename(SaveBtn_filename(n)) = SaveBtn_filename(n)
    /\ event.op = "Save" =>
            /\ \E n \in SaveNames :
                    /\ Len(n) > 0
                    /\ event.file = (IF ends_with(n, Tpi) THEN n ELSE n \o Tpi)
            /\ ends_with(event.file, Tpi)
            /\ ~ends_with(event.file, Tpi \o Tpi)
            /\ event.file \in DOMAIN disk
            /\ disk[event.file] = to_vec(state)
            /\ saved[event.file] = state
            /\ ~crashed
    /\ \A f \in DOMAIN disk : ends_with(f, Tpi)

\* A sequence of two entries was written to g.tpi and is still in memory.
C11_Witness ==
    /\ event.op = "Save" /\ event.file = <<"g">> \o Tpi
    /\ event.file \in DOMAIN disk
    /\ Len(state) = 2 /\ saved[event.file] = state

(***************************************************************************)
(* C12.  A change event of the image selector or of Load with no file in   *)
(* it (no file engine, or an empty list) does nothing: the sequence, the   *)
(* review flag and the suspended reads are as they were, and the           *)
(* application goes on.                                                    *)
(***************************************************************************)
C12_EmptySelectionIsNoOp ==
    [][\A f \in {NoEngine, <<>>} :
        (ImgSelector_onchange(f) \/ LoadBtn_onchange(f))
        => /\ state' = state /\ view_all' = view_all
           /\ tasks' = tasks /\ disk' = disk
           /\ ~crashed'
           /\ Home(state', view_all') = Home(state, view_all)]_vars

\* The Load dialog was dismissed with a phrase and a drawing in memory.
C12_Witness ==
    /\ event.op = "LoadNoFile" /\ ~crashed
    /\ Len(state) = 2 /\ Last(state).kind = "Drawing"

(***************************************************************************)
(* C13.  While the application runs, New and Save are on screen exactly    *)
(* when the sequence is not empty and Load is on screen always, in active  *)
(* and in review mode; so New and Save are never clicked on an empty       *)
(* sequence.                                                               *)
(***************************************************************************)
C13_ControlsOffered ==
    /\ \A va \in BOOLEAN :
            /\ "NewBtn" \in Home(state, va) <=> Len(state) > 0
            /\ "SaveBtn" \in Home(state, va) <=> Len(state) > 0
            /\ "LoadBtn" \in Home(state, va)
    /\ ~crashed =>
            /\ Mounted("NewBtn", state, view_all, crashed) <=> Len(state) > 0
            /\ Mounted("SaveBtn", state, view_all, crashed) <=> Len(state) > 0
            /\ Mounted("LoadBtn", state, view_all, crashed)
            /\ ENABLED NewBtn_ondoubleclick <=> Len(state) > 0
            /\ ENABLED LoadBtn_onchange(NoEngine)
    /\ Len(state) = 0 =>
            ~ENABLED (\E n \in SaveNames, c \in BOOLEAN : SaveBtn_onclick(n, c))

\* After a New in active mode only Load is left of the three controls.
C13_Witness ==
    /\ event.op = "New" /\ ~view_all /\ ~crashed
    /\ Home(state, view_all) \cap {"NewBtn", "SaveBtn", "LoadBtn"}
            = {"LoadBtn"}

(***************************************************************************)
(* C14.  In review mode the view holds one item per entry, in the order of *)
(* the sequence: the text of entry i when it is a Phrase, an image with    *)
(* src "entry/i" when it is a Drawing.  In active mode the review list is  *)
(* not rendered: the view holds the prompt for the last entry, with no     *)
(* image but that of a last Drawing.                                       *)
(***************************************************************************)
C14_ReviewRendersEveryEntry ==
    LET g == GameReview(state) IN
    /\ Len(g) = Len(state)
    /\ \A k \in 1..Len(state) :
            IF state[k].kind = "Phrase"
            THEN g[k].tag = "PhraseDisplay" /\ g[k].phrase = state[k].data
            ELSE g[k].tag = "DrawingDisplay" /\ g[k].index = k - 1
    /\ view_all =>
            /\ "GameReview" \in Home(state, view_all)
            /\ "EntryDisplay" \notin Home(state, view_all)
            /\ ImgRefs(state, view_all)
                    = {k - 1 : k \in {j \in 1..Len(state) :
                                        state[j].kind = "Drawing"}}
    /\ ~view_all =>
            /\ "GameReview" \notin Home(state, view_all)
            /\ "EntryDisplay" \in Home(state, view_all)
            /\ ImgRefs(state, view_all)
                    = (IF Len(state) > 0 /\ Last(state).kind = "Drawing"
                       THEN {Len(state) - 1} ELSE {})

\* Review mode entered on a phrase and a drawing: the text, then entry/1.
C14_Witness ==
    /\ view_all /\ event.op = "ViewAll" /\ ~crashed
    /\ Len(state) = 2
    /\ GameReview(state)[1].tag = "PhraseDisplay"
    /\ GameReview(state)[2].tag = "DrawingDisplay"
    /\ ImgRefs(state, view_all) = {1}

C16_OnlyAppendClearReplace ==
    [][state' # state =>
        \/ /\ Len(state') = Len(state) + 1
           /\ SubSeq(state', 1, Len(state)) = state
        \/ NewBtn_ondoubleclick /\ Len(state') = 0
        \/ \E t \in tasks : LoadBtn_resume(t, TRUE)]_vars

(***************************************************************************)
(* C17.  Every lookup the asset handler runs for a request of the web      *)
(* view, its index taken from the src of an image that was on screen,      *)
(* finds the index within the sequence and a Drawing at it, and answers.   *)
(* The request is answered after it was sent: a New, a load or an image    *)
(* read completing in between leaves the handler with an index of the      *)
(* sequence as it was.                                                     *)
(***************************************************************************)
C17_ViewLookupsSucceed ==
    [][\A i \in requests :
        asset_handler(i)
        => /\ i < Len(state)
           /\ state[i + 1].kind = "Drawing"
           /\ event'.op = "AssetRespond"
           /\ event'.body = state[i + 1].data]_vars
====
